---- MODULE Spec2Model ----
(***************************************************************************)
(* Model of autodist/network.py: the Cluster manager (topology build,     *)
(* role queries, start / stale-process sweep / terminate) and the         *)
(* process-wide state it touches (the DEFAULT_PORT_RANGE iterator, the    *)
(* atexit registry, the environment, the operating system's processes).   *)
(*                                                                         *)
(* Strings are sequences of one-character strings, so that sorting,       *)
(* formatting, splitting and substring tests are computed, not assumed.   *)
(***************************************************************************)
EXTENDS Integers, Sequences, FiniteSets, TLC

\* ------------------------------------------------------------------ bounds

\* How many Cluster objects a process constructs (SpecBuild).
MaxBuilds == 2

\* How many times start() is called on the manager (Spec).
MaxStarts == 2

\* How many times terminate() is called explicitly on the manager (Spec).
MaxTerminates == 2

\* ------------------------------------------------------------- characters

Digits == <<"0", "1", "2", "3", "4", "5", "6", "7", "8", "9">>

\* Code point order of the characters that occur: '.' < '0'..'9' < ':'.
CharCode(c) ==
    IF c = "." THEN 46
    ELSE IF c = ":" THEN 58
    ELSE 48 + (CHOOSE d \in 0..9 : Digits[d + 1] = c)

\* Python's str < str: lexicographic by code point, a proper prefix is smaller.
RECURSIVE StrLess(_, _)
StrLess(a, b) ==
    IF b = <<>> THEN FALSE
    ELSE IF a = <<>> THEN TRUE
    ELSE IF Head(a) = Head(b) THEN StrLess(Tail(a), Tail(b))
    ELSE CharCode(Head(a)) < CharCode(Head(b))

\* '{}'.format(n) for a natural number: its decimal digits.
RECURSIVE IntToStr(_)
IntToStr(n) ==
    IF n < 10 THEN <<Digits[n + 1]>>
    ELSE Append(IntToStr(n \div 10), Digits[(n % 10) + 1])

\* str.split(sep) for a one-character separator: the list of parts.
RECURSIVE SplitFrom(_, _, _)
SplitFrom(s, sep, cur) ==
    IF s = <<>> THEN <<cur>>
    ELSE IF Head(s) = sep THEN <<cur>> \o SplitFrom(Tail(s), sep, <<>>)
    ELSE SplitFrom(Tail(s), sep, Append(cur, Head(s)))

Split(s, sep) == SplitFrom(s, sep, <<>>)

\* Python's `needle in hay` for strings.
IsSubstring(needle, hay) ==
    \E i \in 0..(Len(hay) - Len(needle)) :
        \A k \in 1..Len(needle) : hay[i + k] = needle[k]

\* ------------------------------------------------------------ node identities

Node_10_0_0_1 == <<"1", "0", ".", "0", ".", "0", ".", "1">>
Node_12_1_1_1 == <<"1", "2", ".", "1", ".", "1", ".", "1">>
Node_2_1_1_1 == <<"2", ".", "1", ".", "1", ".", "1">>

\* The node identities resource specs are drawn from.
NodePool == {Node_10_0_0_1, Node_12_1_1_1, Node_2_1_1_1}

\* The resource specs: a non-empty node set and its chief, one of the nodes.
ResourceSpecs ==
    {[nodes |-> ns, chief |-> c] : ns \in (SUBSET NodePool) \ {{}}, c \in NodePool}

ValidResourceSpecs == {rs \in ResourceSpecs : rs.chief \in rs.nodes}

\* ------------------------------------------------------------ topology build

\* First value of the iterator autodist.const.DEFAULT_PORT_RANGE.
BasePort == 2222

\* Step of the iterator autodist.const.DEFAULT_PORT_RANGE.
PortIncrement == 1

\* sorted(resource_spec.nodes): ascending in str order.
RECURSIVE Sorted(_)
Sorted(S) ==
    IF S = {} THEN <<>>
    ELSE LET m == CHOOSE x \in S : \A y \in S \ {x} : StrLess(x, y)
         IN  <<m>> \o Sorted(S \ {m})

\* '{ip}:{port}'.format(ip=n, port=p)
FullAddress(n, p) == n \o <<":">> \o IntToStr(p)

\* The ports the comprehension draws: the i-th next() on an iterator that
\* stands at `iter` when the comprehension starts.
DrawnPort(iter, i) == iter + (i - 1) * PortIncrement

\* Cluster._get_default_cluster_spec, with the iterator at `iter` on entry.
GetDefaultClusterSpec(nodes, iter) ==
    LET s == Sorted(nodes)
    IN  [worker |-> [i \in 1..Len(s) |-> FullAddress(s[i], DrawnPort(iter, i))]]

\* Where the iterator stands after the comprehension: one next() per node.
IterAfterBuild(nodes, iter) == iter + Cardinality(nodes) * PortIncrement

JobNames(spec) == DOMAIN spec

\* self._full_addresses: the job lists flattened in job order.
FullAddresses(spec) == spec.worker

\* Mutant of TaskToAddress: the task indices counted from 1.
TaskToAddressFromOne(spec) ==
    [t \in {<<j, i>> : j \in JobNames(spec), i \in 1..Len(spec.worker)} |->
        Split(spec[t[1]][t[2]], ":")[1]]

\* self._task_to_address: (job_name, task_index) -> a.split(':')[0];
\* task_index is enumerate()'s, from 0.
TaskToAddress(spec) ==
    [t \in {<<j, i>> : j \in JobNames(spec), i \in 0..(Len(spec.worker) - 1)} |->
        Split(spec[t[1]][t[2] + 1], ":")[1]]

\* self._address_to_port: dict(a.split(':') for a in self._full_addresses)
AddressToPort(spec) ==
    LET fa == FullAddresses(spec)
        keys == {Split(fa[i], ":")[1] : i \in 1..Len(fa)}
    IN  [k \in keys |->
            LET last == CHOOSE i \in 1..Len(fa) :
                            /\ Split(fa[i], ":")[1] = k
                            /\ \A j \in (i + 1)..Len(fa) : Split(fa[j], ":")[1] # k
            IN  Split(fa[last], ":")[2]]

\* ------------------------------------------------------------ address classifier

\* ip_address(text) for dotted-quad text: the four octets as numbers.
RECURSIVE StrToInt(_)
StrToInt(s) ==
    IF s = <<>> THEN 0
    ELSE 10 * StrToInt(SubSeq(s, 1, Len(s) - 1)) + (CharCode(s[Len(s)]) - 48)

ParseIp(text) ==
    LET parts == Split(text, ".")
    IN  [i \in 1..Len(parts) |-> StrToInt(parts[i])]

\* _get_ip_from_address: address.rpartition(':')[0], or the address itself
\* when it holds no colon.
GetIpFromAddress(address) ==
    LET parts == Split(address, ":")
        ip == IF Len(parts) = 1 THEN address
              ELSE SubSeq(address, 1, Len(address) - Len(parts[Len(parts)]) - 1)
    IN  ParseIp(IF ip = <<>> THEN address ELSE ip)

\* ------------------------------------------------------------ transport configs

\* dict.get(key, default)
Get(d, key, default) == IF key \in DOMAIN d THEN d[key] ELSE default

\* The key files on disk: one that paramiko loads, one that it rejects.
GoodKeyFile == "good_key"
BadKeyFile == "bad_key"

\* SSHConfigMap._gen_rsa_pkey: None ("") for no path, the key loaded from the
\* file, or the exception RSAKey.from_private_key_file raises.
GenRsaPkey(key_file_path) ==
    IF key_file_path = "" THEN [raised |-> "", pkey |-> ""]
    ELSE IF key_file_path = BadKeyFile THEN [raised |-> "SSHException", pkey |-> ""]
    ELSE [raised |-> "", pkey |-> "RSAKey:" \o key_file_path]

\* ENV.AUTODIST_PATCH_TF.val, as text.
PatchTfVal == "True"

\* The keyword arguments of the env dict that the code itself passes, in
\* order; values are written as the text '%s' gives them.
BaselineEnv == <<<<"TF_CPP_MIN_LOG_LEVEL", "0">>, <<"AUTODIST_PATCH_TF", PatchTfVal>>>>

\* The keys of a dict kept as a sequence of (key, value) pairs.
Keys(pairs) == {pairs[i][1] : i \in DOMAIN pairs}

\* The value a dict kept as a sequence of pairs holds for a key it has.
ValueOf(pairs, key) == pairs[CHOOSE i \in DOMAIN pairs : pairs[i][1] = key][2]

\* Mutant of BuildEnv: the user's entries are dropped.
BuildEnvBaselineOnly(shared_envs) == [raised |-> "", env |-> BaselineEnv]

\* dict(TF_CPP_MIN_LOG_LEVEL=0, AUTODIST_PATCH_TF=..., **shared_envs): a key
\* given both as a keyword and in the unpacked mapping is a TypeError; else
\* the keywords, then the mapping's entries in its order.
BuildEnv(shared_envs) ==
    IF Keys(shared_envs) \cap Keys(BaselineEnv) # {}
    THEN [raised |-> "TypeError", env |-> <<>>]
    ELSE [raised |-> "", env |-> BaselineEnv \o shared_envs]

\* The value conf_map.get(group) gives for an unknown group: None.
NoneConfig ==
    [isNone |-> TRUE, username |-> "", port |-> 0, python_venv |-> "",
     key_file |-> "", pkey |-> "", env |-> <<>>]

\* SSHConfig(...) for one group: the fields parsed out of ssh_info, or the
\* exception the key load or the env dict raises (the key is loaded first).
ResolveGroup(ssh_info) ==
    LET key == GenRsaPkey(Get(ssh_info, "key_file", ""))
        env == BuildEnv(Get(ssh_info, "shared_envs", <<>>))
    IN  IF key.raised # "" THEN [raised |-> key.raised, conf |-> NoneConfig]
        ELSE IF env.raised # "" THEN [raised |-> env.raised, conf |-> NoneConfig]
        ELSE [raised |-> "",
              conf |-> [isNone |-> FALSE,
                        username |-> Get(ssh_info, "username", ""),
                        port |-> Get(ssh_info, "port", 22),
                        python_venv |-> Get(ssh_info, "python_venv", ""),
                        key_file |-> Get(ssh_info, "key_file", ""),
                        pkey |-> key.pkey,
                        env |-> env.env]]

\* Mutant of HostEntries: a host whose group is unknown gets no key.
HostEntriesKnownOnly(info, node_groups) ==
    [h \in {x \in DOMAIN node_groups : node_groups[x] \in DOMAIN info} |->
        ResolveGroup(info[node_groups[h]]).conf]

\* The second loop of SSHConfigMap.__init__: self[hostname] =
\* conf_map.get(group), for every host of node_groups.
HostEntries(info, node_groups) ==
    [h \in DOMAIN node_groups |->
        IF node_groups[h] \in DOMAIN info
        THEN ResolveGroup(info[node_groups[h]]).conf
        ELSE NoneConfig]

\* SSHConfigMap.__init__(info, node_groups): the exception of the first loop,
\* or the filled map.
SSHConfigMap(info, node_groups) ==
    IF \E g \in DOMAIN info : ResolveGroup(info[g]).raised # ""
    THEN [built |-> TRUE, info |-> info, node_groups |-> node_groups,
          raised |-> {ResolveGroup(info[g]).raised : g \in DOMAIN info} \ {""},
          map |-> <<>>]
    ELSE [built |-> TRUE, info |-> info, node_groups |-> node_groups,
          raised |-> {},
          map |-> HostEntries(info, node_groups)]

\* No SSHConfigMap was built yet.
NoRegistry ==
    [built |-> FALSE, info |-> <<>>, node_groups |-> <<>>, raised |-> {}, map |-> <<>>]

\* The group names, and the raw per-group dicts the SSH information is drawn
\* from.
GroupNames == {"A", "B"}
RawInfos ==
    {[username |-> "u", port |-> 2222],
     [python_venv |-> "source venv/bin/activate"],
     [username |-> "u", shared_envs |-> <<<<"FOO", "1">>>>],
     [username |-> "u", shared_envs |-> <<<<"TF_CPP_MIN_LOG_LEVEL", "3">>>>],
     [key_file |-> GoodKeyFile],
     [key_file |-> BadKeyFile]}

\* The info arguments: some of the groups, each with a raw dict.
Infos == UNION {[gs -> RawInfos] : gs \in SUBSET GroupNames}

\* The node_groups arguments: some of the hosts, each with a group name, which
\* info may or may not have.
NodeGroupMaps == UNION {[hs -> GroupNames \cup {"C"}] : hs \in SUBSET NodePool}

\* ------------------------------------------------------------------ state

VARIABLES
    portIter,         \* where the process-wide iterator DEFAULT_PORT_RANGE stands
    builds,           \* history: the resource spec and result of each topology build
    constructed,      \* a Cluster object exists
    cluster_spec,     \* self.cluster_spec
    chief,            \* self._chief
    full_addresses,   \* self._full_addresses
    address_to_port,  \* self._address_to_port
    task_to_address,  \* self._task_to_address
    subprocesses,     \* self.subprocesses: handles, a pid or None
    envWorker,        \* ENV.AUTODIST_WORKER.val (<<>>: unset)
    debugRemote,      \* ENV.AUTODIST_DEBUG_REMOTE.val
    localIfaces,      \* the IPs bound to this machine's interfaces
    atexitHooks,      \* how many times self.terminate is in the atexit registry
    procs,            \* the processes this process has spawned, by pid
    pc,               \* where the control thread is
    idx,              \* the loop index of the running start()
    pending,          \* start()'s local `proc`, between its launch and its append
    sweepProcs,       \* _clean_autodist_processes' local `procs`
    nStarts,          \* how many times start() was called
    nTerminates,      \* how many times terminate() was called explicitly
    startResult,      \* how the last start() ended
    termResult,       \* how the last terminate() ended
    trace,            \* history: the steps of the running or last start()
    exitRuns,         \* history: how many times terminate() ran at interpreter exit
    queryResult,      \* the last role query and what it returned or raised
    ssh_conf          \* resource_spec.ssh_config_map, kept as SSHCluster._ssh_conf

topoVars == <<portIter, builds>>
mgrVars == <<constructed, cluster_spec, chief, full_addresses, address_to_port, task_to_address>>
envVars == <<envWorker, debugRemote, localIfaces, ssh_conf>>
startVars == <<pc, idx, pending, sweepProcs, nStarts, startResult, trace>>
termVars == <<nTerminates, termResult, exitRuns>>

vars == <<topoVars, mgrVars, subprocesses, envVars, atexitHooks, procs,
          startVars, termVars, queryResult>>

\* Python's None where a process handle is expected; the pids start at 1.
None == 0

\* No role query was made yet.
NoQuery ==
    [op |-> "none", job |-> "", index |-> 0, arg |-> <<>>, raised |-> "",
     value |-> <<>>, flag |-> FALSE]

\* terminate() was not called yet.
NoTerminate == [result |-> "none", handles |-> <<>>, attempted |-> {}]

\* ------------------------------------------------------------ construction

\* Cluster.__init__ on resource spec rs.
Construct(rs) ==
    /\ Len(builds) < MaxBuilds
    /\ pc = "idle"
    /\ nStarts = 0
    /\ LET spec == GetDefaultClusterSpec(rs.nodes, portIter)
       IN  /\ cluster_spec' = spec
           /\ portIter' = IterAfterBuild(rs.nodes, portIter)
           /\ chief' = rs.chief
           /\ full_addresses' = FullAddresses(spec)
           /\ address_to_port' = AddressToPort(spec)
           /\ task_to_address' = TaskToAddress(spec)
           /\ builds' = Append(builds, [nodes |-> rs.nodes, spec |-> spec])
    /\ constructed' = TRUE
    /\ subprocesses' = <<>>
    /\ queryResult' = NoQuery
    /\ UNCHANGED <<envVars, atexitHooks, procs, startVars, termVars>>

\* ------------------------------------------------------------ role queries

\* Cluster.get_local_address
GetLocalAddress == IF envWorker # <<>> THEN envWorker ELSE chief

\* Mutant of IsChief: the chief is looked for inside the address, as the local
\* address is looked for inside the entries of the address list.
IsChiefSubstring(address) ==
    IsSubstring(chief, IF address = <<>> THEN GetLocalAddress ELSE address)

\* Cluster.is_chief(address); no address (<<>>) means the local address.
IsChief(address) ==
    (IF address = <<>> THEN GetLocalAddress ELSE address) = chief

\* Cluster.get_address_from_task: the dict lookup, KeyError on a missing key.
AddressFromTask(job_name, task_index) ==
    IF <<job_name, task_index>> \in DOMAIN task_to_address
    THEN [raised |-> "", value |-> task_to_address[<<job_name, task_index>>]]
    ELSE [raised |-> "KeyError", value |-> <<>>]

\* The job names and task indices queries are made with.
QueryJobs == {"worker", "ps"}
QueryIndices == -1..5

\* A call of get_address_from_task(job_name, task_index).
GetAddressFromTask(job_name, task_index) ==
    /\ constructed
    /\ pc = "idle"
    /\ LET r == AddressFromTask(job_name, task_index)
       IN  queryResult' = [op |-> "get_address_from_task", job |-> job_name,
                           index |-> task_index, arg |-> <<>>,
                           raised |-> r.raised, value |-> r.value, flag |-> FALSE]
    /\ UNCHANGED <<topoVars, mgrVars, subprocesses, envVars, atexitHooks, procs,
                   startVars, termVars>>

\* The role queries change nothing of the process but the record of the last
\* query.
QueryLeaves ==
    UNCHANGED <<topoVars, mgrVars, subprocesses, envVars, atexitHooks, procs,
                startVars, termVars>>

\* The addresses is_chief is asked about: none, or a node identity.
QueryAddresses == {<<>>} \cup NodePool

\* A call of is_chief(address).
QueryIsChief(address) ==
    /\ constructed
    /\ pc = "idle"
    /\ queryResult' = [op |-> "is_chief", job |-> "", index |-> 0, arg |-> address,
                       raised |-> "", value |-> <<>>, flag |-> IsChief(address)]
    /\ QueryLeaves

\* A call of get_local_address().
QueryLocalAddress ==
    /\ constructed
    /\ pc = "idle"
    /\ queryResult' = [op |-> "get_local_address", job |-> "", index |-> 0,
                       arg |-> <<>>, raised |-> "", value |-> GetLocalAddress,
                       flag |-> FALSE]
    /\ QueryLeaves

\* The entries of the address list the comprehension of
\* get_local_worker_task_index keeps: those the address is an exact host of.
\* Mutant of LocalMatches.
LocalMatchesExactHost(address) ==
    {i \in DOMAIN full_addresses : Split(full_addresses[i], ":")[1] = address}

\* The entries of the address list the comprehension of
\* get_local_worker_task_index keeps: those with the address `in` them.
LocalMatches(address) ==
    {i \in DOMAIN full_addresses : IsSubstring(address, full_addresses[i])}

\* Cluster.get_local_worker_task_index: element [0] of the comprehension
\* (indices from 0), IndexError when it is empty.
LocalWorkerTaskIndex ==
    LET matches == LocalMatches(GetLocalAddress)
    IN  IF matches = {}
        THEN [raised |-> "IndexError", index |-> 0]
        ELSE [raised |-> "",
              index |-> (CHOOSE i \in matches : \A j \in matches : i <= j) - 1]

\* A call of get_local_worker_task_index().
GetLocalWorkerTaskIndex ==
    /\ constructed
    /\ pc = "idle"
    /\ LET r == LocalWorkerTaskIndex
       IN  queryResult' = [op |-> "get_local_worker_task_index", job |-> "",
                           index |-> r.index, arg |-> <<>>, raised |-> r.raised,
                           value |-> <<>>, flag |-> FALSE]
    /\ QueryLeaves

\* Cluster.get_local_session_target: the port looked up for the local
\* address, KeyError when the address is no key of the map.
LocalSessionTarget ==
    IF GetLocalAddress \in DOMAIN address_to_port
    THEN [raised |-> "",
          value |-> <<"g", "r", "p", "c", ":", "/", "/", "l", "o", "c", "a", "l",
                      "h", "o", "s", "t", ":">> \o address_to_port[GetLocalAddress]]
    ELSE [raised |-> "KeyError", value |-> <<>>]

\* A call of get_local_session_target().
GetLocalSessionTarget ==
    /\ constructed
    /\ pc = "idle"
    /\ LET r == LocalSessionTarget
       IN  queryResult' = [op |-> "get_local_session_target", job |-> "",
                           index |-> 0, arg |-> <<>>, raised |-> r.raised,
                           value |-> r.value, flag |-> FALSE]
    /\ QueryLeaves

\* ------------------------------------------------------------ the process

\* The environments a process runs in.
EnvWorkerValues == {<<>>} \cup NodePool
LocalIfaceChoices == {{}, {ParseIp(Node_12_1_1_1)}}

\* A fresh interpreter that has imported autodist.network.
FreshProcess ==
    /\ portIter = BasePort
    /\ builds = <<>>
    /\ constructed = FALSE
    /\ cluster_spec = [worker |-> <<>>]
    /\ chief = <<>>
    /\ full_addresses = <<>>
    /\ address_to_port = <<>>
    /\ task_to_address = <<>>
    /\ subprocesses = <<>>
    /\ atexitHooks = 0
    /\ procs = <<>>
    /\ pc = "idle"
    /\ idx = 0
    /\ pending = None
    /\ sweepProcs = <<>>
    /\ nStarts = 0
    /\ nTerminates = 0
    /\ startResult = "none"
    /\ termResult = NoTerminate
    /\ trace = <<>>
    /\ exitRuns = 0
    /\ queryResult = NoQuery

\* Topology builds and role queries do not read the dry-run toggle or the
\* interfaces: one value of each.
InitProcess ==
    /\ FreshProcess
    /\ envWorker \in EnvWorkerValues
    /\ debugRemote = FALSE
    /\ localIfaces = {}
    /\ ssh_conf = NoRegistry

\* Topology builds and role queries: a process that constructs Cluster objects
\* and queries the latest one.
NextBuild ==
    \/ \E rs \in ValidResourceSpecs : Construct(rs)
    \/ \E j \in QueryJobs, i \in QueryIndices : GetAddressFromTask(j, i)
    \/ \E a \in QueryAddresses : QueryIsChief(a)
    \/ QueryLocalAddress
    \/ GetLocalWorkerTaskIndex
    \/ GetLocalSessionTarget

SpecBuild == InitProcess /\ [][NextBuild]_vars

\* A resource spec is read: its SSHConfigMap is built from the SSH information
\* and the host-to-group map.
BuildRegistry(info, node_groups) ==
    /\ ~constructed
    /\ ~ssh_conf.built
    /\ ssh_conf' = SSHConfigMap(info, node_groups)
    /\ UNCHANGED <<topoVars, mgrVars, subprocesses, envWorker, debugRemote,
                   localIfaces, atexitHooks, procs, startVars, termVars,
                   queryResult>>

\* A fresh process with no worker override.
InitRegistry ==
    /\ FreshProcess
    /\ envWorker = <<>>
    /\ debugRemote = FALSE
    /\ localIfaces = {}
    /\ ssh_conf = NoRegistry

NextRegistry == \E info \in Infos, node_groups \in NodeGroupMaps : BuildRegistry(info, node_groups)

\* Transport configuration builds: a process that builds SSHConfigMaps.
SpecRegistry == InitRegistry /\ [][NextRegistry]_vars

\* ------------------------------------------------------------ processes

\* A process table entry. kind: "local" (a worker-starter spawned on this
\* machine), "remote" (the ssh client of a remote worker-starter) or "sweep"
\* (a kill-by-keyword command); host: the address it was launched for; state:
\* "running", "signaled" (SIGTERM delivered), "exited" (a zombie: not yet
\* waited for) or "reaped" (waited for: the pid is gone).
Proc(kind, host) == [kind |-> kind, host |-> host, state |-> "running"]

\* The pid subprocess.Popen gives the next child.
NextPid == Len(procs) + 1

\* Mutant of AfterSignal: terminate() also waits for the process it signaled.
AfterSignalWaited(state) == "reaped"

\* The state of a process once its process group got SIGTERM; terminate()
\* signals and returns, it never waits.
AfterSignal(state) == IF state = "running" THEN "signaled" ELSE state

\* os.killpg(os.getpgid(p.pid), signal.SIGTERM) on handle p: None has no
\* pid; getpgid finds a running process or a zombie, not a reaped one.
KillOutcome(p) ==
    IF p = None THEN "AttributeError"
    ELSE IF procs[p].state = "reaped" THEN "ProcessLookupError"
    ELSE "ok"

\* The index of the first handle of the list whose signaling raises, or one
\* past the end: the loop of terminate() stops there.
FirstRaising(handles) ==
    IF \E i \in DOMAIN handles : KillOutcome(handles[i]) # "ok"
    THEN CHOOSE i \in DOMAIN handles :
            /\ KillOutcome(handles[i]) # "ok"
            /\ \A j \in 1..(i - 1) : KillOutcome(handles[j]) = "ok"
    ELSE Len(handles) + 1

\* The indices of the handles one run of terminate() attempts to signal.
Attempted(handles) ==
    {i \in DOMAIN handles : i <= FirstRaising(handles)}

\* The process table after one run of terminate().
ProcsAfterTerminate(handles) ==
    LET hit == {handles[i] : i \in 1..(FirstRaising(handles) - 1)}
    IN  [p \in DOMAIN procs |->
            IF p \in hit THEN [procs[p] EXCEPT !.state = AfterSignal(@)]
            ELSE procs[p]]

\* ------------------------------------------------------------ start()

\* is_local_address: the parsed IP is bound to one of this machine's interfaces.
IsLocalAddress(address) == GetIpFromAddress(address) \in localIfaces

\* Mutant of LaunchesLocally: the chief is not spawned locally unless its
\* address is bound to an interface.
LaunchesLocallyIfaceOnly(address) == IsLocalAddress(address)

\* The test of the launch loop: spawn locally, or go through the transport.
LaunchesLocally(address) == IsLocalAddress(address) \/ IsChief(address)

\* self._address_to_port.keys(), in insertion order.
SweepHosts ==
    [i \in 1..Len(full_addresses) |-> Split(full_addresses[i], ":")[1]]

\* Mutant of RegisterAtexit: start() does not register the hook.
RegisterAtexitMissing(hooks) == hooks

\* atexit.register(self.terminate): one more entry in the registry.
RegisterAtexit(hooks) == hooks + 1

Event(ev, i, h) == [ev |-> ev, i |-> i, h |-> h, cmd |-> [venv |-> "", env |-> <<>>]]

\* The event of a launch command being run: the command's virtual-environment
\* prefix and its KEY=VALUE assignments, in order, with the handle it gave.
CmdEvent(ev, i, h, cmd) == [ev |-> ev, i |-> i, h |-> h, cmd |-> cmd]

\* envs of start(): the one assignment start() puts before every launch
\* command.
Envs == <<<<"AUTODIST_MIN_LOG_LEVEL", "ERROR">>>>

\* cmd of the local branch: envs, then the interpreter and its arguments.
LocalCmd == [venv |-> "", env |-> Envs]

\* Mutant of RemoteCmd: the config's env entries are not put in the command.
RemoteCmdNoConfigEnv(hostname, args_env) ==
    [venv |-> ssh_conf.map[hostname].python_venv, env |-> args_env]

\* full_cmd of remote_exec: the config's virtual environment, the config's
\* env entries, then the arguments, which start with the caller's assignments.
RemoteCmd(hostname, args_env) ==
    LET ssh_config == ssh_conf.map[hostname]
    IN  [venv |-> ssh_config.python_venv,
         env |-> (IF ssh_config.env # <<>> THEN ssh_config.env ELSE <<>>) \o args_env]

\* An exception leaves start(): the control thread is back at the caller.
Raise(ev, i) ==
    /\ pc' = "idle"
    /\ startResult' = "raised"
    /\ pending' = None
    /\ trace' = Append(trace, Event(ev, i, None))
    /\ UNCHANGED <<idx, nStarts>>

\* The launch loop moves to its next entry, or start() returns.
NextEntry ==
    IF idx + 1 < Len(cluster_spec.worker)
    THEN /\ pc' = "launch"
         /\ idx' = idx + 1
         /\ startResult' = startResult
    ELSE /\ pc' = "idle"
         /\ idx' = idx
         /\ startResult' = "ok"

\* start() up to the sweep: the import, the atexit registration, the command
\* prefix, and the test whether this process is the chief.
StartBegin ==
    /\ constructed
    /\ pc = "idle"
    /\ nStarts < MaxStarts
    /\ nStarts' = nStarts + 1
    /\ atexitHooks' = RegisterAtexit(atexitHooks)
    /\ trace' = <<Event("atexit", 0, None)>>
    /\ startResult' = "running"
    /\ sweepProcs' = <<>>
    /\ pending' = None
    /\ IF IsChief(<<>>)
       THEN pc' = "sweep_issue" /\ idx' = 1
       ELSE pc' = "launch" /\ idx' = 0
    /\ UNCHANGED <<topoVars, mgrVars, subprocesses, envVars, procs, termVars,
                   queryResult>>

\* One turn of the first loop of _clean_autodist_processes: the kill command
\* for one host, spawned locally for the chief and through remote_exec for
\* any other host (which returns None in dry-run mode).
SweepIssue ==
    /\ pc = "sweep_issue"
    /\ LET host == SweepHosts[idx]
       IN  \E ok \in BOOLEAN :
             IF ~ok
             THEN /\ Raise("sweep_issue_raised", idx)
                  /\ UNCHANGED <<procs, sweepProcs>>
             ELSE /\ IF ~IsChief(host) /\ debugRemote
                     THEN /\ sweepProcs' = Append(sweepProcs, None)
                          /\ procs' = procs
                          /\ trace' = Append(trace, Event("sweep_issue", idx, None))
                     ELSE /\ sweepProcs' = Append(sweepProcs, NextPid)
                          /\ procs' = Append(procs, Proc("sweep", host))
                          /\ trace' = Append(trace, Event("sweep_issue", idx, NextPid))
                  /\ IF idx < Len(SweepHosts)
                     THEN pc' = pc /\ idx' = idx + 1
                     ELSE pc' = "sweep_wait" /\ idx' = 1
                  /\ UNCHANGED <<pending, nStarts, startResult>>
    /\ UNCHANGED <<topoVars, mgrVars, subprocesses, envVars, atexitHooks,
                   termVars, queryResult>>

\* Mutant of AfterWait: the second loop polls instead of waiting.
AfterPoll(state) == state

\* The state of a sweep process when proc.wait() has returned: it has ended
\* and is reaped.
AfterWait(state) == "reaped"

\* The processes the kill command of sweep process p ends: the command the
\* chief runs on itself matches the local worker-starters, whose command
\* line holds the keyword.
KilledBySweep(p) ==
    {q \in DOMAIN procs :
        /\ procs[p].host = chief
        /\ procs[q].kind = "local"
        /\ procs[q].state \in {"running", "signaled"}}

\* One turn of the second loop of _clean_autodist_processes: proc.wait()
\* returns when the kill command has ended; None has no wait().
SweepWait ==
    /\ pc = "sweep_wait"
    /\ LET p == sweepProcs[idx]
       IN  IF p = None
           THEN /\ Raise("sweep_wait_raised", idx)
                /\ procs' = procs
           ELSE /\ procs' = [q \in DOMAIN procs |->
                               IF q = p THEN [procs[q] EXCEPT !.state = AfterWait(@)]
                               ELSE IF q \in KilledBySweep(p)
                                    THEN [procs[q] EXCEPT !.state = "exited"]
                                    ELSE procs[q]]
                /\ trace' = Append(trace, Event("sweep_wait", idx, p))
                /\ IF idx < Len(sweepProcs)
                   THEN pc' = pc /\ idx' = idx + 1
                   ELSE pc' = "launch" /\ idx' = 0
                /\ UNCHANGED <<pending, nStarts, startResult>>
    /\ UNCHANGED <<topoVars, mgrVars, subprocesses, envVars, atexitHooks,
                   sweepProcs, termVars, queryResult>>

\* The address of the entry the launch loop is at.
EntryAddress == Split(cluster_spec.worker[idx + 1], ":")[1]

\* A step of start() that touches neither the handle list nor the processes.
LaunchStep(at, local, ev, to) ==
    /\ pc = at
    /\ LaunchesLocally(EntryAddress) = local
    /\ \E ok \in BOOLEAN :
         IF ok
         THEN /\ pc' = to
              /\ trace' = Append(trace, Event(ev, idx, None))
              /\ UNCHANGED <<idx, pending, nStarts, startResult>>
         ELSE Raise(ev \o "_raised", idx)
    /\ UNCHANGED <<topoVars, mgrVars, subprocesses, envVars, atexitHooks, procs,
                   sweepProcs, termVars, queryResult>>

\* Local branch: json.dump of the topology into the working directory.
LocalDump == LaunchStep("launch", TRUE, "dump", "local_popen")

\* Local branch: subprocess.Popen of the worker-starter in a new session.
LocalPopen ==
    /\ pc = "local_popen"
    /\ \E ok \in BOOLEAN :
         IF ok
         THEN /\ procs' = Append(procs, Proc("local", EntryAddress))
              /\ pending' = NextPid
              /\ pc' = "local_append"
              /\ trace' = Append(trace, CmdEvent("popen", idx, NextPid, LocalCmd))
              /\ UNCHANGED <<idx, nStarts, startResult>>
         ELSE /\ Raise("popen_raised", idx)
              /\ procs' = procs
    /\ UNCHANGED <<topoVars, mgrVars, subprocesses, envVars, atexitHooks,
                   sweepProcs, termVars, queryResult>>

\* Mutant of AppendHandle: the handle is dropped instead of recorded.
AppendHandleDropped(at) ==
    /\ pc = at
    /\ trace' = Append(trace, Event("append", idx, pending))
    /\ pending' = None
    /\ NextEntry
    /\ UNCHANGED <<topoVars, mgrVars, subprocesses, envVars, atexitHooks, procs,
                   sweepProcs, nStarts, termVars, queryResult>>

\* self.subprocesses.append(proc), the statement after either launch.
AppendHandle(at) ==
    /\ pc = at
    /\ subprocesses' = Append(subprocesses, pending)
    /\ trace' = Append(trace, Event("append", idx, pending))
    /\ pending' = None
    /\ NextEntry
    /\ UNCHANGED <<topoVars, mgrVars, envVars, atexitHooks, procs, sweepProcs,
                   nStarts, termVars, queryResult>>

LocalAppend == AppendHandle("local_append")

\* Mutant of RemoteCopy: the topology file is not written to the host.
RemoteCopyOnly == LaunchStep("launch", FALSE, "copy", "remote_exec")

\* Remote branch: remote_pre_start_tf_server's remote_copy of the starter.
RemoteCopy == LaunchStep("launch", FALSE, "copy", "remote_write")

\* Remote branch: remote_pre_start_tf_server's remote_file_write of the topology.
RemoteWrite == LaunchStep("remote_write", FALSE, "write", "remote_exec")

\* Remote branch: remote_exec of the starter; None in dry-run mode.
RemoteExec ==
    /\ pc = "remote_exec"
    /\ \E ok \in BOOLEAN :
         IF ok
         THEN /\ IF debugRemote
                 THEN /\ procs' = procs
                      /\ pending' = None
                      /\ trace' = Append(trace, CmdEvent("exec", idx, None, RemoteCmd(EntryAddress, Envs)))
                 ELSE /\ procs' = Append(procs, Proc("remote", EntryAddress))
                      /\ pending' = NextPid
                      /\ trace' = Append(trace, CmdEvent("exec", idx, NextPid, RemoteCmd(EntryAddress, Envs)))
              /\ pc' = "remote_append"
              /\ UNCHANGED <<idx, nStarts, startResult>>
         ELSE /\ Raise("exec_raised", idx)
              /\ procs' = procs
    /\ UNCHANGED <<topoVars, mgrVars, subprocesses, envVars, atexitHooks,
                   sweepProcs, termVars, queryResult>>

RemoteAppend == AppendHandle("remote_append")

\* ------------------------------------------------------------ terminate()

\* Mutant of Terminate: the handles that were signaled are dropped from the
\* list.
TerminateClearing ==
    /\ constructed
    /\ pc = "idle"
    /\ nTerminates < MaxTerminates
    /\ nTerminates' = nTerminates + 1
    /\ procs' = ProcsAfterTerminate(subprocesses)
    /\ termResult' = [result |-> IF FirstRaising(subprocesses) > Len(subprocesses)
                                 THEN "ok" ELSE "raised",
                      handles |-> subprocesses,
                      attempted |-> Attempted(subprocesses)]
    /\ subprocesses' = SubSeq(subprocesses, FirstRaising(subprocesses), Len(subprocesses))
    /\ UNCHANGED <<topoVars, mgrVars, envVars, atexitHooks, startVars, exitRuns,
                   queryResult>>

\* An explicit call of terminate(): the loop runs until a signaling raises.
Terminate ==
    /\ constructed
    /\ pc = "idle"
    /\ nTerminates < MaxTerminates
    /\ nTerminates' = nTerminates + 1
    /\ procs' = ProcsAfterTerminate(subprocesses)
    /\ termResult' = [result |-> IF FirstRaising(subprocesses) > Len(subprocesses)
                                 THEN "ok" ELSE "raised",
                      handles |-> subprocesses,
                      attempted |-> Attempted(subprocesses)]
    /\ UNCHANGED <<topoVars, mgrVars, subprocesses, envVars, atexitHooks,
                   startVars, exitRuns, queryResult>>

\* A process that got SIGTERM ends; nothing waits for it, so it stays a zombie.
\* The code reads the state of a process only through KillOutcome, one
\* process at a time, so the order in which processes end is not observable:
\* they are taken in pid order.
ProcExit(p) ==
    /\ procs[p].state = "signaled"
    /\ \A q \in 1..(p - 1) : procs[q].state # "signaled"
    /\ procs' = [procs EXCEPT ![p].state = "exited"]
    /\ UNCHANGED <<topoVars, mgrVars, subprocesses, envVars, atexitHooks,
                   startVars, termVars, queryResult>>

\* The interpreter exits, after start() returned or raised: atexit calls every
\* registered callback, one call per registration, and swallows what it raises.
InterpreterExit ==
    /\ constructed
    /\ pc = "idle"
    /\ pc' = "exited"
    /\ exitRuns' = atexitHooks
    /\ procs' = IF atexitHooks > 0 THEN ProcsAfterTerminate(subprocesses) ELSE procs
    /\ UNCHANGED <<topoVars, mgrVars, subprocesses, envVars, atexitHooks, idx,
                   pending, sweepProcs, nStarts, startResult, trace, nTerminates,
                   termResult, queryResult>>

\* ------------------------------------------------------------ the manager

\* The SSH information of the managed cluster: every host in group A, which
\* has a shared environment entry.
ClusterInfo == [A |-> [username |-> "u", port |-> 2222, shared_envs |-> <<<<"FOO", "1">>>>]]
ClusterNodeGroups == [h \in NodePool |-> "A"]

\* The state after the first Cluster of a fresh process is constructed. A
\* worker override that names the chief resolves like no override
\* (get_local_address), so the overrides taken are the other nodes.
Init ==
    \E rs \in ValidResourceSpecs :
        LET spec == GetDefaultClusterSpec(rs.nodes, BasePort)
        IN  /\ portIter = IterAfterBuild(rs.nodes, BasePort)
            /\ builds = <<[nodes |-> rs.nodes, spec |-> spec]>>
            /\ constructed = TRUE
            /\ cluster_spec = spec
            /\ chief = rs.chief
            /\ full_addresses = FullAddresses(spec)
            /\ address_to_port = AddressToPort(spec)
            /\ task_to_address = TaskToAddress(spec)
            /\ subprocesses = <<>>
            /\ envWorker \in {<<>>} \cup (rs.nodes \ {rs.chief})
            /\ debugRemote \in BOOLEAN
            /\ localIfaces \in LocalIfaceChoices
            /\ ssh_conf = SSHConfigMap(ClusterInfo, ClusterNodeGroups)
            /\ atexitHooks = 0
            /\ procs = <<>>
            /\ pc = "idle"
            /\ idx = 0
            /\ pending = None
            /\ sweepProcs = <<>>
            /\ nStarts = 0
            /\ nTerminates = 0
            /\ startResult = "none"
            /\ termResult = NoTerminate
            /\ trace = <<>>
            /\ exitRuns = 0
            /\ queryResult = NoQuery

Next ==
    \/ StartBegin
    \/ SweepIssue
    \/ SweepWait
    \/ LocalDump
    \/ LocalPopen
    \/ LocalAppend
    \/ RemoteCopy
    \/ RemoteWrite
    \/ RemoteExec
    \/ RemoteAppend
    \/ Terminate
    \/ \E p \in DOMAIN procs : ProcExit(p)
    \/ InterpreterExit

Spec == Init /\ [][Next]_vars

\* One manager on its chief: two nodes, the chief's own and a remote one, no
\* worker override.
InitOps ==
    /\ Init
    /\ builds[1].nodes = {Node_10_0_0_1, Node_2_1_1_1}
    /\ chief = Node_10_0_0_1
    /\ envWorker = <<>>
    /\ localIfaces = {}

\* The lifecycle operations and the role queries of one manager, in any order.
NextOps ==
    \/ Next
    \/ \E j \in QueryJobs, i \in QueryIndices : GetAddressFromTask(j, i)
    \/ \E a \in QueryAddresses : QueryIsChief(a)
    \/ QueryLocalAddress
    \/ GetLocalWorkerTaskIndex
    \/ GetLocalSessionTarget

SpecOps == InitOps /\ [][NextOps]_vars

\* ------------------------------------------------------------ properties

\* The part of a full address before its colon, read off the characters.
HostOf(full) ==
    SubSeq(full, 1, (CHOOSE n \in 1..Len(full) :
                        full[n] = ":" /\ \A m \in 1..(n - 1) : full[m] # ":") - 1)

WorkerKinds == {"local", "remote"}
Ended(p) == procs[p].state \in {"exited", "reaped"}

IsLaunch(e) == e.ev \in {"popen", "exec"}
IsAppend(e) == e.ev = "append"
IsLaunchStage(e) ==
    e.ev \in {"dump", "popen", "copy", "write", "exec", "append", "dump_raised",
              "popen_raised", "copy_raised", "write_raised", "exec_raised"}
IsSweepStage(e) ==
    e.ev \in {"sweep_issue", "sweep_wait", "sweep_issue_raised", "sweep_wait_raised"}

\* The launches of the running or last start(), in order.
Launches == SelectSeq(trace, IsLaunch)

\* The last n entries of the handle list are the handles the launches
\* of the running or last start() returned, in order.
TailIsLaunches ==
    LET n == Len(Launches)
    IN  /\ Len(subprocesses) >= n
        /\ \A k \in 1..n :
              subprocesses[Len(subprocesses) - n + k] = Launches[k].h

\* C1: two topology builds from the same node set return the same
\* job -> address:port lists, whatever was built before them in the process.
C1_BuildIsPure ==
    \A i, j \in DOMAIN builds :
        builds[i].nodes = builds[j].nodes => builds[i].spec = builds[j].spec

\* C2: every built topology has the single job 'worker', one entry per node
\* in ascending node order, the entry at sorted index i carrying port
\* base_port + i * increment.
C2_SortedWithBasePorts ==
    \A b \in DOMAIN builds :
        LET w == builds[b].spec.worker
        IN  /\ DOMAIN builds[b].spec = {"worker"}
            /\ Len(w) = Cardinality(builds[b].nodes)
            /\ {HostOf(w[i]) : i \in 1..Len(w)} = builds[b].nodes
            /\ \A i \in 1..(Len(w) - 1) : StrLess(HostOf(w[i]), HostOf(w[i + 1]))
            /\ \A i \in 1..Len(w) :
                  w[i] = HostOf(w[i]) \o <<":">>
                           \o IntToStr(BasePort + (i - 1) * PortIncrement)

\* C3: when start() has raised in its launch loop, the handle list holds
\* exactly the handles of the launches that succeeded: every process that
\* start() spawned and that has not ended is in the list, every worker process
\* is in it once, the entries start() added are those its launches returned,
\* and the entry whose launch failed got none.
C3_HandlesAfterFailedStart ==
    (pc = "idle" /\ startResult = "raised" /\ IsLaunchStage(trace[Len(trace)])) =>
        /\ \A i \in DOMAIN trace :
              (trace[i].ev \in {"sweep_issue", "popen", "exec"} /\ trace[i].h # None) =>
                 \/ Ended(trace[i].h)
                 \/ \E k \in DOMAIN subprocesses : subprocesses[k] = trace[i].h
        /\ \A p \in DOMAIN procs :
              procs[p].kind \in WorkerKinds =>
                 Cardinality({i \in DOMAIN subprocesses : subprocesses[i] = p}) = 1
        /\ \A k \in DOMAIN subprocesses :
              subprocesses[k] # None => procs[subprocesses[k]].kind \in WorkerKinds
        /\ TailIsLaunches
        /\ Len(SelectSeq(trace, IsAppend)) = Len(Launches)
        /\ \A i \in DOMAIN trace :
              (IsAppend(trace[i]) \/ IsLaunch(trace[i])) =>
                 trace[i].i < trace[Len(trace)].i

\* Witness of C3: start() raised at the launch of a later entry, with the
\* process of an earlier entry running and recorded.
C3_Witness ==
    /\ pc = "idle"
    /\ startResult = "raised"
    /\ trace[Len(trace)].ev \in {"popen_raised", "exec_raised"}
    /\ trace[Len(trace)].i >= 1
    /\ \E i \in DOMAIN subprocesses :
          subprocesses[i] # None /\ procs[subprocesses[i]].state = "running"

\* C4: terminate() attempts to signal every recorded handle, also when the
\* signaling of an earlier one failed.
C4_EveryHandleAttempted ==
    termResult.result # "none" => termResult.attempted = DOMAIN termResult.handles

\* C5: a call of terminate() after an earlier one, made when the process of
\* every recorded handle has ended, does not raise and leaves the handle list
\* as it was.
C5_TerminateIdempotent ==
    [][(/\ nTerminates' = nTerminates + 1
        /\ nTerminates >= 1
        /\ \A i \in DOMAIN subprocesses :
              subprocesses[i] # None /\ Ended(subprocesses[i]))
       => (termResult'.result = "ok" /\ subprocesses' = subprocesses)]_vars

\* Witness of C5: a second terminate() returned with every recorded process
\* ended.
C5_Witness ==
    /\ nTerminates >= 2
    /\ termResult.result = "ok"
    /\ Len(subprocesses) >= 2
    /\ \A i \in DOMAIN subprocesses :
          subprocesses[i] # None /\ Ended(subprocesses[i])

\* C6: in every start() the hook is registered first: once any sweep or
\* launch step was attempted, and so when a later step has failed, one
\* registration per start() made so far is in place.
C6_HookRegisteredFirst ==
    nStarts >= 1 =>
        /\ trace # <<>>
        /\ trace[1].ev = "atexit"
        /\ \A i \in 2..Len(trace) : trace[i].ev # "atexit"
        /\ atexitHooks >= nStarts

\* Witness of C6: start() raised in its launch loop.
C6_Witness ==
    /\ pc = "idle"
    /\ startResult = "raised"
    /\ IsLaunchStage(trace[Len(trace)])
    /\ atexitHooks >= 1

\* C7: whatever the number of start() calls, terminate() runs exactly once
\* when the interpreter exits.
C7_TerminateOnceAtExit ==
    (pc = "exited" /\ nStarts >= 1) => exitRuns = 1

OneLaunchPerEntry ==
    LET w == cluster_spec.worker
    IN  /\ Len(Launches) = Len(w)
        /\ \A k \in 1..Len(w) :
              /\ Launches[k].i = k - 1
              /\ (Launches[k].ev = "popen") <=>
                    (\/ ParseIp(HostOf(w[k])) \in localIfaces
                     \/ HostOf(w[k]) = chief)
              /\ Launches[k].h # None =>
                    /\ procs[Launches[k].h].host = HostOf(w[k])
                    /\ procs[Launches[k].h].kind =
                          (IF Launches[k].ev = "popen" THEN "local" ELSE "remote")

\* C9 as stated: after a start() that returned, the launches are one per
\* topology entry and the handle list holds exactly one handle per entry.
C9_OneHandlePerEntry ==
    (pc = "idle" /\ startResult = "ok") =>
        /\ OneLaunchPerEntry
        /\ Len(subprocesses) = Len(cluster_spec.worker)
        /\ TailIsLaunches

\* C9, amended: after a start() that returned, the launches are one per
\* topology entry, and the entries that start() appended to the handle list
\* are what its launches returned, one per topology entry in topology order,
\* after the entries earlier calls of start() left in the list.
C9_EachStartAppendsOnePerEntry ==
    (pc = "idle" /\ startResult = "ok") =>
        /\ OneLaunchPerEntry
        /\ Len(subprocesses) >= Len(cluster_spec.worker)
        /\ TailIsLaunches

\* Witness of C9: a second start() returned, having launched locally and
\* remotely.
C9_Witness ==
    /\ pc = "idle"
    /\ startResult = "ok"
    /\ nStarts = 2
    /\ \E i \in DOMAIN trace : trace[i].ev = "popen"
    /\ \E i \in DOMAIN trace : trace[i].ev = "exec"

\* C10: get_address_from_task(job, i) returns the part before the colon of
\* entry i of the job's list, raises KeyError for a (job, i) the topology does
\* not have, and either way leaves the manager as it was.
C10_AddressForTask ==
    [][(queryResult' # queryResult /\ queryResult'.op = "get_address_from_task") =>
          LET q == queryResult'
          IN  /\ IF /\ q.job \in DOMAIN cluster_spec
                    /\ q.index >= 0
                    /\ q.index < Len(cluster_spec[q.job])
                 THEN /\ q.raised = ""
                      /\ q.value = HostOf(cluster_spec[q.job][q.index + 1])
                 ELSE /\ q.raised = "KeyError"
                      /\ q.value = <<>>
              /\ UNCHANGED <<topoVars, mgrVars, subprocesses, envVars,
                             atexitHooks, procs, startVars, termVars>>]_vars

\* Witness of C10: task 5 was asked of a topology of two entries.
C10_Witness ==
    /\ queryResult.op = "get_address_from_task"
    /\ queryResult.job = "worker"
    /\ queryResult.index = 5
    /\ Len(cluster_spec.worker) = 2
    /\ queryResult.raised = "KeyError"

\* The hosts of the built map's node_groups whose group info has, and those
\* whose group it lacks.
KnownHosts == {h \in DOMAIN ssh_conf.node_groups : ssh_conf.node_groups[h] \in DOMAIN ssh_conf.info}
UnknownHosts == DOMAIN ssh_conf.node_groups \ KnownHosts

\* The build raised only if a group of info fails to resolve, whatever the
\* host-to-group map holds.
BuildFailsOnlyOnGroupConfigs ==
    (ssh_conf.raised # {}) <=>
        (\E g \in DOMAIN ssh_conf.info :
            \/ Get(ssh_conf.info[g], "key_file", "") = BadKeyFile
            \/ Keys(Get(ssh_conf.info[g], "shared_envs", <<>>)) \cap Keys(BaselineEnv) # {})

\* A host of a known group holds that group's config, and hosts of one group
\* hold the same config.
KnownHostsResolved ==
    /\ \A h \in KnownHosts :
        /\ h \in DOMAIN ssh_conf.map
        /\ ~ssh_conf.map[h].isNone
        /\ LET ssh_info == ssh_conf.info[ssh_conf.node_groups[h]]
           IN  /\ ssh_conf.map[h].username = Get(ssh_info, "username", "")
               /\ ssh_conf.map[h].port = Get(ssh_info, "port", 22)
               /\ ssh_conf.map[h].python_venv = Get(ssh_info, "python_venv", "")
               /\ ssh_conf.map[h].key_file = Get(ssh_info, "key_file", "")
    /\ \A h1 \in KnownHosts, h2 \in KnownHosts :
        ssh_conf.node_groups[h1] = ssh_conf.node_groups[h2] =>
            ssh_conf.map[h1] = ssh_conf.map[h2]

\* C11 as stated: the build never fails because of an unknown group, a host
\* of a known group holds the group's config, hosts of one group hold the same
\* config, and a host of an unknown group has no entry in the map.
C11_NoEntryForUnknownGroup ==
    ssh_conf.built =>
        /\ BuildFailsOnlyOnGroupConfigs
        /\ ssh_conf.raised = {} =>
            /\ KnownHostsResolved
            /\ \A h \in UnknownHosts : h \notin DOMAIN ssh_conf.map

\* C11: the build never fails because of an unknown group, a host of a known
\* group holds the group's config, hosts of one group hold the same config,
\* and a host of an unknown group is stored in the map with None for its
\* config.
C11_NoneEntryForUnknownGroup ==
    ssh_conf.built =>
        /\ BuildFailsOnlyOnGroupConfigs
        /\ ssh_conf.raised = {} =>
            /\ KnownHostsResolved
            /\ \A h \in UnknownHosts :
                h \in DOMAIN ssh_conf.map /\ ssh_conf.map[h].isNone

\* A map was built for two hosts of one known group and a host of an unknown
\* group.
C11_Witness ==
    /\ ssh_conf.built
    /\ ssh_conf.raised = {}
    /\ UnknownHosts # {}
    /\ \E h1 \in KnownHosts, h2 \in KnownHosts :
        h1 # h2 /\ ssh_conf.node_groups[h1] = ssh_conf.node_groups[h2]

\* C12 as stated: the env of every resolvable group holds the user's value
\* for every user key, a baseline key among them, the build succeeding, and the
\* baseline value for every baseline key the user did not supply.
C12_UserEnvOverlaysBaseline ==
    ssh_conf.built =>
        \A g \in DOMAIN ssh_conf.info :
            LET ssh_info == ssh_conf.info[g]
                shared == Get(ssh_info, "shared_envs", <<>>)
                r == ResolveGroup(ssh_info)
            IN  Get(ssh_info, "key_file", "") # BadKeyFile =>
                    /\ r.raised = ""
                    /\ \A k \in Keys(shared) :
                        k \in Keys(r.conf.env) /\ ValueOf(r.conf.env, k) = ValueOf(shared, k)
                    /\ \A k \in Keys(BaselineEnv) \ Keys(shared) :
                        k \in Keys(r.conf.env)
                            /\ ValueOf(r.conf.env, k) = ValueOf(BaselineEnv, k)

\* The launches of the running or last start() that spawned a process.
Spawns == {k \in DOMAIN trace : trace[k].ev \in {"popen", "exec"} /\ trace[k].h # None}

\* The shared env entries of the group of the host of the k-th event.
SharedEnvOf(k) ==
    Get(ssh_conf.info[ssh_conf.node_groups[HostOf(full_addresses[trace[k].i + 1])]],
        "shared_envs", <<>>)

\* The command of the k-th event assigns the value to the key.
Assigns(k, key, value) ==
    \E n \in DOMAIN trace[k].cmd.env : trace[k].cmd.env[n] = <<key, value>>

\* The command of a remote spawn carries the group's shared env entries.
CarriesSharedEnv(k) ==
    \A n \in DOMAIN SharedEnvOf(k) : Assigns(k, SharedEnvOf(k)[n][1], SharedEnvOf(k)[n][2])

TopologyAddresses == {HostOf(full_addresses[i]) : i \in DOMAIN full_addresses}

\* C14: for every constructed manager exactly one entry of the flattened
\* address list has the chief's address, is_chief holds of exactly one address
\* of the topology, and an is_chief(a) call for an address of the topology
\* answers whether a is that entry's address.
C14_ExactlyOneChiefEntry ==
    constructed =>
        /\ Cardinality({i \in DOMAIN full_addresses : HostOf(full_addresses[i]) = chief}) = 1
        /\ Cardinality({a \in TopologyAddresses : IsChief(a)}) = 1
        /\ (queryResult.op = "is_chief" /\ queryResult.arg \in TopologyAddresses) =>
                (queryResult.flag <=> queryResult.arg = chief)

\* is_chief was asked about an address of a topology of three entries that
\* is not the chief's but has the chief's address inside it.
C14_Witness ==
    /\ constructed
    /\ Len(full_addresses) = 3
    /\ queryResult.op = "is_chief"
    /\ queryResult.arg \in TopologyAddresses
    /\ queryResult.arg # chief
    /\ IsSubstring(chief, queryResult.arg)
    /\ ~queryResult.flag

\* The k-th event of the trace is the given step of the given entry.
IsStep(k, ev, i) == k \in DOMAIN trace /\ trace[k].ev = ev /\ trace[k].i = i

\* C15: in a start(), the remote launch of an entry is called right after
\* the topology file was written to the host, which is right after the starter
\* was copied to it; the value the launch returns is appended in the very next
\* step; and a copy or a write that fails is the last step of that start(), so
\* no launch is issued for its host.
C15_RemoteStepsInOrder ==
    \A k \in DOMAIN trace :
        LET i == trace[k].i
        IN  /\ trace[k].ev \in {"exec", "exec_raised"} =>
                IsStep(k - 1, "write", i) /\ IsStep(k - 2, "copy", i)
            /\ trace[k].ev \in {"write", "write_raised"} => IsStep(k - 1, "copy", i)
            /\ (trace[k].ev = "exec" /\ k < Len(trace)) =>
                IsStep(k + 1, "append", i) /\ trace[k + 1].h = trace[k].h
            /\ (trace[k].ev = "copy" /\ k < Len(trace)) =>
                IsStep(k + 1, "write", i) \/ IsStep(k + 1, "write_raised", i)
            /\ (trace[k].ev = "write" /\ k < Len(trace)) =>
                IsStep(k + 1, "exec", i) \/ IsStep(k + 1, "exec_raised", i)
            /\ trace[k].ev \in {"copy_raised", "write_raised", "exec_raised"} =>
                /\ k = Len(trace)
                /\ pc = "idle" \/ pc = "exited"
                /\ startResult = "raised"

\* A start() launched a first remote entry and appended its handle, and then
\* the write failed for a second remote entry.
C15_Witness ==
    \E k \in DOMAIN trace :
        /\ trace[k].ev = "exec"
        /\ IsStep(k + 1, "append", trace[k].i)
        /\ \E n \in DOMAIN trace :
            n > k /\ trace[n].ev = "write_raised" /\ trace[n].i > trace[k].i

\* The events of a failed step of the remote branch.
RemoteFailures == {"copy_raised", "write_raised", "exec_raised"}

\* The last step of the last start() was a failed step of the remote branch,
\* and start() has left with its exception.
RemoteLaunchFailed ==
    /\ trace # <<>>
    /\ trace[Len(trace)].ev \in RemoteFailures
    /\ startResult = "raised"

\* terminate() ran on the handle list as the failed start() left it.
TerminatedAfterFailure ==
    /\ RemoteLaunchFailed
    /\ termResult.result # "none"
    /\ termResult.handles = subprocesses

\* C16 as stated: a failure of the remote branch leaves start() and is not
\* retried: every entry is tried at most once in a start(), nothing is launched
\* after the failed entry, and a terminate() that follows signals every handle
\* recorded before the failure.
C16_FailedLaunchNotRetried ==
    /\ \A k \in DOMAIN trace, n \in DOMAIN trace :
        (/\ trace[k].ev \in {"copy", "copy_raised", "dump", "dump_raised"}
         /\ trace[n].ev \in {"copy", "copy_raised", "dump", "dump_raised"}
         /\ trace[k].i = trace[n].i) => k = n
    /\ \A k \in DOMAIN trace : trace[k].ev \in RemoteFailures => k = Len(trace)
    /\ RemoteLaunchFailed => pc \in {"idle", "exited"}
    /\ TerminatedAfterFailure =>
        \A i \in DOMAIN subprocesses :
            subprocesses[i] # None => i \in termResult.attempted

\* C18: get_local_worker_task_index() returns the smallest index (from 0)
\* of an entry of the flattened address list that has the local address as a
\* substring, and raises when no entry has; get_local_address() returns the
\* worker override when one is set and the chief otherwise.
C18_LocalTaskIndex ==
    LET local == IF envWorker # <<>> THEN envWorker ELSE chief
        q == queryResult
    IN  /\ q.op = "get_local_address" => q.raised = "" /\ q.value = local
        /\ q.op = "get_local_worker_task_index" =>
            IF \E i \in DOMAIN full_addresses : IsSubstring(local, full_addresses[i])
            THEN /\ q.raised = ""
                 /\ q.index + 1 \in DOMAIN full_addresses
                 /\ IsSubstring(local, full_addresses[q.index + 1])
                 /\ \A j \in 1..q.index : ~IsSubstring(local, full_addresses[j])
            ELSE q.raised = "IndexError"

\* The index was asked for with a local address that is inside an entry of
\* another node, before the entry of its own node.
C18_Witness ==
    /\ queryResult.op = "get_local_worker_task_index"
    /\ queryResult.raised = ""
    /\ envWorker # <<>>
    /\ HostOf(full_addresses[queryResult.index + 1]) # envWorker
    /\ \E i \in DOMAIN full_addresses : HostOf(full_addresses[i]) = envWorker

\* C19 as stated: when the local address is the address of a node of the
\* topology, the address of worker task get_local_worker_task_index() is the
\* local address, also when it is a substring of another entry.
C19_LocalIndexRoundTrip ==
    (/\ queryResult.op = "get_local_worker_task_index"
     /\ GetLocalAddress \in TopologyAddresses) =>
        /\ queryResult.raised = ""
        /\ AddressFromTask("worker", queryResult.index).raised = ""
        /\ AddressFromTask("worker", queryResult.index).value = GetLocalAddress

\* C17: once the manager is constructed no operation changes the topology,
\* the chief or the registry; the handle list changes only by start() appending
\* the value its launch returned; and terminate(), the exit hook and the role
\* queries leave the list as it was.
C17_OnlyStartAppends ==
    [][/\ mgrVars' = mgrVars
       /\ ssh_conf' = ssh_conf
       /\ subprocesses' # subprocesses =>
            /\ pc \in {"local_append", "remote_append"}
            /\ subprocesses' = Append(subprocesses, pending)
       /\ (\/ nTerminates' # nTerminates
           \/ exitRuns' # exitRuns
           \/ queryResult' # queryResult) => subprocesses' = subprocesses]_vars

\* A role query was answered after a start() that appended two entries and a
\* terminate() that signaled them, and the list holds both entries.
C17_Witness ==
    /\ queryResult.op = "get_local_worker_task_index"
    /\ Len(subprocesses) = 2
    /\ termResult.result = "ok"
    /\ termResult.handles = subprocesses
    /\ termResult.attempted = {1, 2}

\* The process is the chief of its manager, in dry-run mode, and the topology
\* has a host that is launched through the remote transport.
DryRunChiefWithRemoteHost ==
    /\ debugRemote
    /\ IsChief(<<>>)
    /\ \E a \in TopologyAddresses : ~LaunchesLocally(a)

\* C20 as stated: in dry-run mode a start() on the chief with a remote host
\* gets through the sweep and the launch loop with no error from the absent
\* remote processes, every element of the handle list can be signaled, and a
\* terminate() that follows does not raise.
C20_DryRunStartCompletes ==
    DryRunChiefWithRemoteHost =>
        /\ \A k \in DOMAIN trace : trace[k].ev # "sweep_wait_raised"
        /\ \A i \in DOMAIN subprocesses : subprocesses[i] # None
        /\ termResult.result # "raised"


====
